---- MODULE Spec2Model ----
(***************************************************************************)
(* docs-crawler: the progress store (docs_crawler/cache.py, CrawlProgress), *)
(* the cache store (CrawlCache), the crawl run (docs_crawler/crawler.py,    *)
(* docs_crawler/cli.py) and the exporter (docs_crawler/exporter.py) as      *)
(* state machines.                                                          *)
(*                                                                          *)
(* A URL is represented by the characters of its path (what                 *)
(* urlparse(url).path returns); scheme and host play no part in any         *)
(* operation modelled here.                                                 *)
(***************************************************************************)
EXTENDS Integers, Sequences, FiniteSets, TLC

VARIABLES
    \* ---- CrawlProgress (cache.py) ----
    data,        \* self.data of the CrawlProgress instance: << >> (None) or <<dict>>
    disk,        \* the progress file: << >> (no file) or <<dict>>
    loaded,      \* what load() returned to a new instance after an interruption
    resumed,     \* TRUE once the first process was interrupted and a new instance loaded
    crawlUrls,   \* history: the argument of the last start(urls)
    marks,       \* history: per URL, the number of mark_* calls since start (capped at 2)
    found,       \* the condition in which the new instance found the progress file
    loadRaised,  \* "no", or the exception load() let through to its caller
    \* ---- CrawlCache (cache.py) ----
    pages,       \* self.data["pages"]: URL -> << >> (no entry) or <<entry>>
    cacheFile,   \* the cache file on disk
    constructed, \* "no", "yes", or the exception CrawlCache(...) raised
    stored,      \* history: per URL, the hash of the last update_page not undone since
    answer,      \* << >>, or the last is_changed call and what it returned
    \* ---- Crawler.run / cli.main (crawler.py, cli.py) ----
    urls,        \* the URL list handed to run
    pc,          \* the position of the run
    i,           \* index in urls of the URL being processed (the for loop of run)
    attempt,     \* the attempt variable of the retry loop
    results,     \* self.results
    files,       \* the output sub-directory: file name -> content
    visited,     \* history: the URLs process_url_with_playwright was called with
    outcomes,    \* history: how the processing of each visited URL ended
    navs,        \* history: the number of page.goto calls made
    tries,       \* history: the number of page.goto calls made for the URL last visited
    interrupted, \* history: a KeyboardInterrupt was delivered during run
    exitCode,    \* the exit code of the process, -1 while it runs
    \* ---- Exporter (exporter.py) ----
    dir,         \* the input directory of the exporter: file name -> content
    order,       \* << >>, or what the last get_page_order() returned
    merged,      \* << >>, or how the last merge() ended
    exports,     \* history: the texts the export_merged_md() calls wrote, in order
    \* ---- cli.main up to the crawl, Crawler.fetch_sitemap (cli.py, crawler.py) ----
    args,        \* the parsed command line
    sitemap,     \* what the site answers to the sitemap request
    mpc,         \* the position of main
    murls,       \* << >> (None) or <<the URL list handed to run or fetched by it>>
    crawlers,    \* history: the number of Crawler objects created
    requests,    \* history: the number of network requests made
    mexit,       \* the exit code of the process, -1 while it runs
    \* ---- Crawler.convert_to_markdown (crawler.py) ----
    doc,         \* the parsed HTML document handed to convert_to_markdown
    given,       \* the keywords Crawler(...) was called with
    made,        \* "no", "yes", or the exception Crawler(...) raised
    converted,   \* << >>, or what the last convert_to_markdown returned
    raw,         \* the lines of the raw Markdown conversion
    cleaned      \* << >>, or the final text made of the raw lines

pvars == <<data, disk, loaded, resumed, crawlUrls, marks, found, loadRaised>>
kvars == <<pages, cacheFile, constructed, stored, answer>>
cvars == <<urls, pc, i, attempt, results, files, visited, outcomes, navs,
           tries, interrupted, exitCode>>
xvars == <<dir, order, merged, exports>>
mvars == <<args, sitemap, mpc, murls, crawlers, requests, mexit>>
hvars == <<doc, given, made, converted, raw, cleaned>>
vars == <<pvars, kvars, cvars, xvars, mvars, hvars>>

---------------------------------------------------------------------------
(* Bounds of the model *)

\* longest URL list handed to start / run
MaxUrls == 2
\* longest failed list (mark_failed never finds its URL in failed, so the
\* list grows with every call)
MaxFailed == 2
\* most rows of an index file the exporter is handed
MaxRows == 2
\* most export_merged_md calls made on one directory
MaxExports == 2
\* most <loc> entries of a sitemap
MaxLocs == 2
\* most elements directly under the body (or at the top of a fragment)
MaxTop == 2
\* most lines of a raw Markdown conversion
MaxLines == 4

---------------------------------------------------------------------------
(* URLs *)

\* The URL universe, as paths: /d/a, /d_a (same slug as /d/a) and / (empty slug)
Urls == { <<"/", "d", "/", "a">>, <<"/", "d", "_", "a">>, <<"/">> }

\* The URLs the progress store is exercised with
ProgressUrls == { <<"/", "d", "/", "a">>, <<"/">> }

\* All lists of at most n elements of S
ListsUpTo(S, n) == UNION { [1..k -> S] : k \in 0..n }

Range(s) == { s[k] : k \in 1..Len(s) }

---------------------------------------------------------------------------
(* Python list operations *)

\* x in lst
Contains(lst, x) == \E k \in 1..Len(lst) : lst[k] = x

\* lst.remove(x) left out: the list as it was
RemoveNothing(lst, x) == lst

RECURSIVE RemoveFirst(_, _)
\* lst.remove(x): removes the first occurrence only
RemoveFirst(lst, x) ==
    IF lst = << >> THEN << >>
    ELSE IF Head(lst) = x THEN Tail(lst)
    ELSE <<Head(lst)>> \o RemoveFirst(Tail(lst), x)

---------------------------------------------------------------------------
(* CrawlProgress *)

NoData == << >>

\* The value Python's None is recorded as in an "error" field
PyNone == "None"

\* The errors mark_failed is called with: None, the empty string, a message
Errors == { PyNone, "", "timeout" }

\* str(error) if error else None
ErrorField(error) == IF error = PyNone \/ error = "" THEN PyNone ELSE error

\* The dict start() builds (started_at is a timestamp no operation reads)
StartData(us) ==
    [total |-> Len(us), pending |-> us, completed |-> << >>, failed |-> << >>]

\* dict == str in Python: a failed record never equals a URL string
DictEqualsUrl(rec, url) == FALSE

\* url in self.data["failed"]: failed holds dicts, url is a string
InFailedList(failed, url) ==
    \E k \in 1..Len(failed) : DictEqualsUrl(failed[k], url)

\* mark_completed on an initialized store
MarkCompletedData(d, url) ==
    LET p == IF Contains(d.pending, url) THEN RemoveFirst(d.pending, url)
             ELSE d.pending
        c == IF ~Contains(d.completed, url) THEN Append(d.completed, url)
             ELSE d.completed
    IN  [d EXCEPT !.pending = p, !.completed = c]

\* mark_failed on an initialized store
MarkFailedData(d, url, error) ==
    LET p == IF Contains(d.pending, url) THEN RemoveFirst(d.pending, url)
             ELSE d.pending
        f == IF ~InFailedList(d.failed, url)
             THEN Append(d.failed, [url |-> url, error |-> ErrorField(error)])
             ELSE d.failed
    IN  [d EXCEPT !.pending = p, !.failed = f]

\* save(): nothing is written while self.data is None; otherwise the whole
\* document replaces the file
SaveFile(d, file) == IF d = NoData THEN file ELSE d

\* load() of a new instance: None when there is no file, else the document
\* (json.load of what json.dump wrote)
LoadFile(file) == file

\* The conditions a progress file can be found in other than as written:
\* no permission to open it, zero bytes, text that is not JSON, bytes that
\* are not UTF-8, a JSON document that is not an object (such as [])
Damages == { "unreadable", "empty", "not_json", "bad_utf8", "json_list" }

Intact == "intact"

NoException == "no"

\* What the body of load()'s try statement raises on a damaged file: open
\* raises IOError, f.read raises UnicodeDecodeError, json.load raises
\* JSONDecodeError, and self.data.get of the logging line raises
\* AttributeError when json.load returned a list
LoadBodyRaises(damage) ==
    CASE damage = "unreadable" -> "IOError"
      [] damage = "empty"      -> "JSONDecodeError"
      [] damage = "not_json"   -> "JSONDecodeError"
      [] damage = "bad_utf8"   -> "UnicodeDecodeError"
      [] damage = "json_list"  -> "AttributeError"

\* except (json.JSONDecodeError, IOError)
ExceptJsonOrIO(exc) == exc \in { "JSONDecodeError", "IOError" }

\* The exception load() lets through on a damaged file, "no" when its
\* handler catches it and None is returned
LoadPropagates(damage) ==
    IF ExceptJsonOrIO(LoadBodyRaises(damage)) THEN NoException
    ELSE LoadBodyRaises(damage)

\* is_complete()
is_complete(d) == IF d = NoData THEN TRUE ELSE Len(d[1].pending) = 0

Bump(m, url) == [m EXCEPT ![url] = IF @ < 2 THEN @ + 1 ELSE 2]

NoMarks == [u \in ProgressUrls |-> 0]

\* start(urls): builds the dict and saves it (the file system accepts the write)
Start(us) ==
    /\ ~resumed
    /\ data' = <<StartData(us)>>
    /\ disk' = SaveFile(data', disk)
    /\ crawlUrls' = us
    /\ marks' = NoMarks
    /\ UNCHANGED <<loaded, resumed, found, loadRaised>>

\* save()
Save ==
    /\ ~resumed
    /\ disk' = SaveFile(data, disk)
    /\ UNCHANGED <<data, loaded, resumed, crawlUrls, marks, found, loadRaised>>

\* mark_completed(url)
MarkCompleted(url) ==
    /\ ~resumed
    /\ IF data = NoData THEN UNCHANGED <<data, marks>>
       ELSE /\ data' = <<MarkCompletedData(data[1], url)>>
            /\ marks' = Bump(marks, url)
    /\ UNCHANGED <<disk, loaded, resumed, crawlUrls, found, loadRaised>>

\* mark_failed(url, error)
MarkFailed(url, error) ==
    /\ ~resumed
    /\ IF data = NoData THEN UNCHANGED <<data, marks>>
       ELSE /\ Len(data[1].failed) < MaxFailed
            /\ data' = <<MarkFailedData(data[1], url, error)>>
            /\ marks' = Bump(marks, url)
    /\ UNCHANGED <<disk, loaded, resumed, crawlUrls, found, loadRaised>>

\* The process is interrupted; a new CrawlProgress on the same directory
\* calls load()
Resume ==
    /\ ~resumed
    /\ resumed' = TRUE
    /\ loaded' = LoadFile(disk)
    /\ UNCHANGED <<data, disk, crawlUrls, marks, found, loadRaised>>

\* The process is interrupted and the progress file is found damaged; a new
\* CrawlProgress on the same directory calls load()
ResumeDamaged(damage) ==
    /\ ~resumed
    /\ disk # << >>
    /\ resumed' = TRUE
    /\ found' = damage
    /\ loaded' = << >>
    /\ loadRaised' = LoadPropagates(damage)
    /\ UNCHANGED <<data, disk, crawlUrls, marks>>

\* clear(): removes the file and resets the instance
Clear ==
    /\ ~resumed
    /\ data' = NoData
    /\ disk' = << >>
    /\ marks' = NoMarks
    /\ crawlUrls' = << >>
    /\ UNCHANGED <<loaded, resumed, found, loadRaised>>

---------------------------------------------------------------------------
(* CrawlCache *)

CACHE_VERSION == 1

NoEntry == << >>

\* compute_hash: the MD5 digest of the content, kept symbolic
compute_hash(content) == <<"md5", content>>

\* The URLs the cache store is exercised with
CacheUrls == { <<"/", "d", "/", "a">>, <<"/">> }

\* Content hashes and ETag values handed to update_page
Hashes == { "h1", "h2" }
Etags == { PyNone, "e1" }

\* The dict update_page stores (last_crawled is a timestamp no operation reads)
Entry(content_hash, etag) ==
    [content_hash |-> content_hash, etag |-> etag, last_modified |-> PyNone]

\* {"version": CACHE_VERSION, "pages": {}}
EmptyPages == [u \in Urls |-> NoEntry]

\* The cache file: absent, damaged, or a document json.dump wrote
NoCacheFile == <<"missing">>
DamagedFile(damage) == <<damage>>
CacheDoc(version, pg) == <<"doc", version, pg>>

IsDamaged(file) == Len(file) = 1 /\ file # NoCacheFile
IsDoc(file) == Len(file) = 3

\* The cache files a CrawlCache can find when it is constructed: none, a
\* damaged one, or a document of this or another version, empty or with a page
CacheFiles ==
    { NoCacheFile }
    \cup { DamagedFile(dmg) : dmg \in Damages }
    \cup { CacheDoc(v, pg) :
              v \in { CACHE_VERSION, CACHE_VERSION + 1 },
              pg \in { EmptyPages,
                       [EmptyPages EXCEPT ![<<"/">>] = <<Entry("h1", PyNone)>>] } }

\* _load_cache: a record of the exception let through ("no" when it returns)
\* and the pages of the dict returned. The body of its try statement raises
\* on a damaged file what load()'s does (data.get("version") on a list is
\* the AttributeError), and its handler is the same
\* except (json.JSONDecodeError, IOError).
LoadCache(file) ==
    IF file = NoCacheFile THEN [raised |-> NoException, pages |-> EmptyPages]
    ELSE IF IsDamaged(file)
    THEN IF ExceptJsonOrIO(LoadBodyRaises(file[1]))
         THEN [raised |-> NoException, pages |-> EmptyPages]
         ELSE [raised |-> LoadBodyRaises(file[1]), pages |-> EmptyPages]
    ELSE IF file[2] # CACHE_VERSION
    THEN [raised |-> NoException, pages |-> EmptyPages]
    ELSE [raised |-> NoException, pages |-> file[3]]

\* get_page_info: self.data["pages"].get(url)
get_page_info(pg, url) == pg[url]

\* is_changed with the comparison turned round
is_changed_same(pg, url, new_content_hash) ==
    LET cached == get_page_info(pg, url)
    IN  IF cached = NoEntry THEN TRUE
        ELSE cached[1].content_hash = new_content_hash

\* is_changed: not cached holds for None only, an entry is never an empty dict
is_changed(pg, url, new_content_hash) ==
    LET cached == get_page_info(pg, url)
    IN  IF cached = NoEntry THEN TRUE
        ELSE cached[1].content_hash # new_content_hash

NotStored == "none"
NothingStored == [u \in Urls |-> NotStored]

\* The hashes a loaded store holds
StoredIn(pg) ==
    [u \in Urls |-> IF pg[u] = NoEntry THEN NotStored ELSE pg[u][1].content_hash]

\* CrawlCache(cache_dir): the constructor, which calls _load_cache
Construct ==
    /\ constructed = "no"
    /\ LET r == LoadCache(cacheFile)
       IN  IF r.raised = NoException
           THEN /\ constructed' = "yes"
                /\ pages' = r.pages
                /\ stored' = StoredIn(r.pages)
           ELSE /\ constructed' = r.raised
                /\ UNCHANGED <<pages, stored>>
    /\ UNCHANGED <<cacheFile, answer>>

\* update_page(url, content_hash, etag)
UpdatePage(url, content_hash, etag) ==
    /\ constructed = "yes"
    /\ pages' = [pages EXCEPT ![url] = <<Entry(content_hash, etag)>>]
    /\ stored' = [stored EXCEPT ![url] = content_hash]
    /\ answer' = << >>
    /\ UNCHANGED <<cacheFile, constructed>>

\* remove_page(url)
RemovePage(url) ==
    /\ constructed = "yes"
    /\ pages' = IF pages[url] # NoEntry THEN [pages EXCEPT ![url] = NoEntry]
                ELSE pages
    /\ stored' = [stored EXCEPT ![url] = NotStored]
    /\ answer' = << >>
    /\ UNCHANGED <<cacheFile, constructed>>

\* clear()
ClearCache ==
    /\ constructed = "yes"
    /\ pages' = EmptyPages
    /\ stored' = NothingStored
    /\ answer' = << >>
    /\ UNCHANGED <<cacheFile, constructed>>

\* save() (the file system accepts the write)
SaveCache ==
    /\ constructed = "yes"
    /\ cacheFile' = CacheDoc(CACHE_VERSION, pages)
    /\ UNCHANGED <<pages, constructed, stored, answer>>

\* is_changed(url, new_content_hash)
IsChanged(url, new_content_hash) ==
    /\ constructed = "yes"
    /\ answer' = <<[url |-> url, hash |-> new_content_hash,
                    changed |-> is_changed(pages, url, new_content_hash)]>>
    /\ UNCHANGED <<pages, cacheFile, constructed, stored>>

---------------------------------------------------------------------------
(* Crawler: file names, page content, index *)

MAX_RETRIES == 3

RECURSIVE LStrip(_)
\* leading '/' characters removed
LStrip(path) ==
    IF path # << >> /\ Head(path) = "/" THEN LStrip(Tail(path)) ELSE path

RECURSIVE RStrip(_)
\* trailing '/' characters removed
RStrip(path) ==
    IF path # << >> /\ path[Len(path)] = "/"
    THEN RStrip(SubSeq(path, 1, Len(path) - 1)) ELSE path

\* slug = urlparse(url).path.strip('/').replace('/', '_'), "index" when empty
Slug(url) ==
    LET stripped == RStrip(LStrip(url))
        replaced == [k \in 1..Len(stripped) |->
                        IF stripped[k] = "/" THEN "_" ELSE stripped[k]]
    IN  IF replaced = << >> THEN <<"i", "n", "d", "e", "x">> ELSE replaced

\* filename = f"{slug}.md"
Filename(url) == Slug(url) \o <<".", "m", "d">>

\* "index.md", the file generate_index writes
IndexFile == <<"i", "n", "d", "e", "x", ".", "m", "d">>

FileNames == { Filename(u) : u \in Urls } \cup { IndexFile }

\* File contents: no file, a file opened for writing and not (fully) written,
\* the Markdown of a page, the index table
NoFile == <<"absent">>
Truncated == <<"truncated">>
Markdown(url) == <<"markdown", url>>
IndexTable(rows) == <<"index", rows>>

\* The <title> of the page at url ("A" sorts before "B")
Title(url) == IF url = <<"/", "d", "/", "a">> THEN "B" ELSE "A"

TitleLessEq(t1, t2) == t1 = "A" \/ t2 = "B"

RECURSIVE InsertByTitle(_, _)
\* item placed after every element whose title is not greater (stable)
InsertByTitle(sorted, item) ==
    IF sorted = << >> THEN <<item>>
    ELSE IF TitleLessEq(Head(sorted).title, item.title)
         THEN <<Head(sorted)>> \o InsertByTitle(Tail(sorted), item)
         ELSE <<item>> \o sorted

RECURSIVE SortByTitle(_)
\* sorted(self.results, key=lambda x: x['title'])
SortByTitle(lst) ==
    IF lst = << >> THEN << >>
    ELSE InsertByTitle(SortByTitle(SubSeq(lst, 1, Len(lst) - 1)), lst[Len(lst)])

\* The dict process_url_with_playwright returns on success
Result(url) == [title |-> Title(url), url |-> url, file |-> Filename(url)]

\* What a call can do: return, raise an Exception (a timeout, a network or
\* I/O error), or be hit by a KeyboardInterrupt (the interrupt signal)
Returns == "ok"
Raised == { "Exception", "KeyboardInterrupt" }
CallResults == { Returns } \cup Raised

\* never caught: a handler that is not there
ExceptNothing(kind) == FALSE

\* except Exception: catches Exception and its subclasses, not KeyboardInterrupt
ExceptException(kind) == kind = "Exception"

\* except: (bare) catches everything, KeyboardInterrupt included
ExceptBare(kind) == TRUE

\* the test made one attempt too late
IsPastLastAttempt(a) == a = MAX_RETRIES

\* except Exception ... if attempt == MAX_RETRIES - 1: return None
IsLastAttempt(a) == a = MAX_RETRIES - 1

---------------------------------------------------------------------------
(* Exporter: page order and merge *)

\* The characters of the file names, in code point order (what sorted() of
\* Python strings compares by)
CharOrder == <<".", "_", "a", "b", "d", "e", "g", "i", "m", "n", "r", "t", "x", "z">>

CodeRank(c) == CHOOSE k \in 1..Len(CharOrder) : CharOrder[k] = c

RECURSIVE StrLess(_, _)
\* s < t for Python strings
StrLess(s, t) ==
    IF t = << >> THEN FALSE
    ELSE IF s = << >> THEN TRUE
    ELSE IF Head(s) # Head(t) THEN CodeRank(Head(s)) < CodeRank(Head(t))
    ELSE StrLess(Tail(s), Tail(t))

RECURSIVE Sorted(_)
\* sorted(names)
Sorted(names) ==
    IF names = {} THEN << >>
    ELSE LET least == CHOOSE x \in names : \A y \in names : x = y \/ StrLess(x, y)
         IN  <<least>> \o Sorted(names \ {least})

\* filename.endswith(".md")
EndsWithMd(name) ==
    Len(name) >= Len(<<".", "m", "d">>)
    /\ SubSeq(name, Len(name) - Len(<<".", "m", "d">>) + 1, Len(name)) = <<".", "m", "d">>

\* The files of the exporter's input directory
PageA == <<"a", ".", "m", "d">>
PageB == <<"b", ".", "m", "d">>
NotesTxt == <<"n", ".", "t", "x", "t">>
\* a file name an index can hold that no file of the directory has
StaleName == <<"z", ".", "m", "d">>
\* the default output file of export_merged_md, inside the input directory
MergedFile == <<"m", "e", "r", "g", "e", "d", ".", "m", "d">>
ExportNames == { PageA, PageB, IndexFile, NotesTxt, MergedFile }

\* A file that exists but whose open or read raises (no permission, a
\* directory of that name, bytes that are not UTF-8)
Unreadable == <<"unreadable">>

TextFile(chars) == <<"text", chars>>

\* The texts of the page files: plain, surrounded by white space, empty
Texts == { <<"x">>, <<" ", "y", "\n">>, << >> }

\* os.path.exists(os.path.join(input_dir, name))
Exists(d, name) == name \in DOMAIN d /\ d[name] # NoFile

\* open(...) and f.read() go through
CanRead(content) == content # NoFile /\ content # Unreadable

\* f.read() of a page file is a text
ReadText(content) == content[2]

WhiteSpace == { " ", "\n", "\t" }

RECURSIVE LStripWs(_)
LStripWs(chars) ==
    IF chars # << >> /\ Head(chars) \in WhiteSpace THEN LStripWs(Tail(chars))
    ELSE chars

RECURSIVE RStripWs(_)
RStripWs(chars) ==
    IF chars # << >> /\ chars[Len(chars)] \in WhiteSpace
    THEN RStripWs(SubSeq(chars, 1, Len(chars) - 1))
    ELSE chars

\* str.strip()
Strip(chars) == RStripWs(LStripWs(chars))

\* A link [text](target) of an index line is matched by
\* \[([^\]]+\.md)\]\([^\)]+\.md\) when the text, which is also the target,
\* ends in .md after at least one character and holds no ] and no );
\* the match is the text
LinkMatch(text) ==
    IF /\ EndsWithMd(text)
       /\ Len(text) > Len(<<".", "m", "d">>)
       /\ \A k \in 1..Len(text) : text[k] \notin { "]", ")" }
    THEN <<text>>
    ELSE << >>

\* An absolute URL is never the name of a file of the directory
UrlText(url) == <<"h", "t", "t", "p", ":">> \o url

RECURSIVE RowMatches(_)
\* re.findall over the rows "| title | [url](url) | [file](file) |"
RowMatches(rows) ==
    IF rows = << >> THEN << >>
    ELSE LinkMatch(UrlText(Head(rows).url)) \o LinkMatch(Head(rows).file)
         \o RowMatches(Tail(rows))

\* re.findall(pattern, content) on what the index file holds: the rows of a
\* table, or a text without links
FindAll(content) ==
    IF content[1] = "index" THEN RowMatches(content[2]) ELSE << >>

\* _get_alphabetical_order
get_alphabetical_order(d) ==
    Sorted({ name \in DOMAIN d :
               d[name] # NoFile /\ EndsWithMd(name) /\ name # IndexFile })

RECURSIVE KeepExisting(_, _)
\* the for loop of get_page_order over the matches
KeepExisting(d, matches) ==
    IF matches = << >> THEN << >>
    ELSE (IF Head(matches) # IndexFile /\ Exists(d, Head(matches))
          THEN <<Head(matches)>> ELSE << >>)
         \o KeepExisting(d, Tail(matches))

\* get_page_order
get_page_order(d) ==
    IF ~Exists(d, IndexFile) THEN get_alphabetical_order(d)
    ELSE IF ~CanRead(d[IndexFile]) THEN get_alphabetical_order(d)
    ELSE IF FindAll(d[IndexFile]) = << >> THEN get_alphabetical_order(d)
    ELSE KeepExisting(d, FindAll(d[IndexFile]))

Separator == <<"\n", "\n", "-", "-", "-", "\n", "\n">>

\* the separator appended before every content, the first included
SeparatorAlways(merged_content) == Append(merged_content, Separator)

\* if merged_content: merged_content.append("\n\n---\n\n")
SeparatorIfNotFirst(merged_content) ==
    IF merged_content # << >> THEN Append(merged_content, Separator)
    ELSE merged_content

RECURSIVE MergeLoop(_, _, _)
\* the for loop of merge: a file whose read raises is skipped
MergeLoop(d, names, merged_content) ==
    IF names = << >> THEN merged_content
    ELSE IF CanRead(d[Head(names)])
    THEN MergeLoop(d, Tail(names),
             Append(SeparatorIfNotFirst(merged_content),
                    Strip(ReadText(d[Head(names)]))))
    ELSE MergeLoop(d, Tail(names), merged_content)

RECURSIVE Join(_)
\* "".join(parts)
Join(parts) == IF parts = << >> THEN << >> ELSE Head(parts) \o Join(Tail(parts))

\* merge: a record of the exception raised ("no" when it returns) and the
\* text returned
merge(d) ==
    IF get_page_order(d) = << >>
    THEN [raised |-> "ValueError", text |-> << >>]
    ELSE [raised |-> NoException,
          text |-> Join(MergeLoop(d, get_page_order(d), << >>))]

\* get_page_order()
GetPageOrder ==
    /\ order' = <<get_page_order(dir)>>
    /\ UNCHANGED <<dir, merged, exports>>

\* merge()
Merge ==
    /\ merged' = <<merge(dir)>>
    /\ UNCHANGED <<dir, order, exports>>

\* export_merged_md() with no output_path: merge() raises, or its text is
\* written to merged.md of the input directory (the file system accepts the
\* write)
ExportMergedMd ==
    /\ Len(exports) < MaxExports
    /\ IF merge(dir).raised = NoException
       THEN /\ dir' = [dir EXCEPT ![MergedFile] = TextFile(merge(dir).text)]
            /\ exports' = Append(exports, merge(dir).text)
       ELSE UNCHANGED <<dir, exports>>
    /\ UNCHANGED <<order, merged>>

\* A row of an index file naming a file
RowFor(name) == [title |-> "A", url |-> <<"/">>, file |-> name]

RowsOf(names) == [k \in 1..Len(names) |-> RowFor(names[k])]

\* What index.md can hold: nothing (absent), unreadable bytes, a text
\* without links, a table of rows
IndexContents ==
    { NoFile, Unreadable, TextFile(<<"x">>) }
    \cup { IndexTable(RowsOf(names)) :
              names \in ListsUpTo({ PageA, PageB, IndexFile, StaleName }, MaxRows) }

PageContents == { NoFile, Unreadable } \cup { TextFile(t) : t \in Texts }

---------------------------------------------------------------------------
(* cli.main: argument validation; Crawler.fetch_sitemap *)

\* A URL as the sequence of its pieces: scheme and host, then separators
\* and segments of the path, query and fragment
Host == "https://h"

\* The <loc> entries a sitemap can hold: a page under /docs/, a page
\* elsewhere, a page elsewhere whose query holds /docs/, the path /docs
\* itself, a page with /docs/ deeper in its path
SitemapLocs ==
    { <<Host, "/", "docs", "/", "a">>,
      <<Host, "/", "about">>,
      <<Host, "/", "about", "?", "from", "=", "/", "docs", "/">>,
      <<Host, "/", "docs">>,
      <<Host, "/", "v2", "/", "docs", "/", "b">> }

\* '/docs/'
DocsFilter == <<"/", "docs", "/">>

\* needle in haystack, for strings
Within(needle, haystack) ==
    \E k \in 1..(Len(haystack) - Len(needle) + 1) :
        SubSeq(haystack, k, k + Len(needle) - 1) = needle

RECURSIVE UpToQuery(_)
\* the part of a string before its first '?' or '#'
UpToQuery(pieces) ==
    IF pieces = << >> \/ Head(pieces) \in { "?", "#" } THEN << >>
    ELSE <<Head(pieces)>> \o UpToQuery(Tail(pieces))

\* urlparse(url).path: what follows scheme and host, up to the query
urlparse_path(url) ==
    IF url # << >> /\ Head(url) = Host THEN UpToQuery(Tail(url)) ELSE UpToQuery(url)

\* the filter looked for in the whole URL
InWholeUrl(url) == Within(DocsFilter, url)

\* '/docs/' in urlparse(url).path
InDocsPath(url) == Within(DocsFilter, urlparse_path(url))

\* What the site answers to the sitemap request: the connection fails,
\* the status is an error, the document cannot be parsed, or it parses and
\* holds a list of <loc> entries
ConnectionError == <<"ConnectionError">>
HTTPError == <<"HTTPError">>
ParseError == <<"ParseError">>
SitemapDoc(locs) == <<"urlset", locs>>

Sitemaps ==
    { ConnectionError, HTTPError, ParseError }
    \cup { SitemapDoc(locs) : locs \in ListsUpTo(SitemapLocs, MaxLocs) }

\* a value Python takes as true in a condition: neither None nor ''
Truthy(value) == value # PyNone /\ value # ""

\* self.sitemap_url = sitemap_url or (f"{base_url}/sitemap.xml" if base_url else None)
SitemapUrlOf(a) ==
    IF Truthy(a.sitemap_url) THEN <<a.sitemap_url>>
    ELSE IF Truthy(a.base_url) THEN <<a.base_url, "/sitemap.xml">>
    ELSE << >>

\* fetch_sitemap makes a request when a sitemap URL is configured
SitemapRequests(a) == IF SitemapUrlOf(a) = << >> THEN 0 ELSE 1

\* fetch_sitemap: [] without a sitemap URL, [] when the body of the try
\* raises (session.get, raise_for_status, BeautifulSoup), else the <loc>
\* texts whose path holds '/docs/'
fetch_sitemap(a, answer_) ==
    IF SitemapUrlOf(a) = << >> THEN << >>
    ELSE IF answer_[1] # "urlset" THEN << >>
    ELSE SelectSeq(answer_[2], InDocsPath)

\* The --file argument: not given, a path with no file, a file that cannot
\* be read, a file without URL lines, a file with URL lines
Files == { PyNone, "missing", "unreadable", "blank", "listed" }

\* The command lines
ArgSets ==
    [mode : { "sitemap", "list" },
     base_url : { PyNone, "", Host },
     sitemap_url : { PyNone, Host },
     file : Files]

\* the sitemap-mode check left out
SitemapArgsAccepted(a) == FALSE

\* if not args.base_url and not args.sitemap_url: parser.error(...)
SitemapArgsMissing(a) == ~Truthy(a.base_url) /\ ~Truthy(a.sitemap_url)

\* if not args.file: parser.error(...)
FileArgMissing(a) == ~Truthy(a.file)

\* os.path.exists(args.file)
FileExists(a) == a.file # "missing"

\* the URL lines read from the file
FileLines(a) == IF a.file = "listed" THEN <<<<Host, "/", "docs", "/", "a">>>> ELSE << >>

\* the status parser.error exits with
UsageError == 2

\* The statements of main before the Crawler is created
Validate ==
    /\ mpc = "validate"
    /\ IF args.mode = "sitemap"
       THEN IF SitemapArgsMissing(args)
            THEN mpc' = "exit" /\ mexit' = UsageError /\ UNCHANGED murls
            ELSE mpc' = "construct" /\ UNCHANGED <<mexit, murls>>
       ELSE IF FileArgMissing(args)
            THEN mpc' = "exit" /\ mexit' = UsageError /\ UNCHANGED murls
            ELSE IF ~FileExists(args) \/ args.file = "unreadable"
            THEN mpc' = "exit" /\ mexit' = 1 /\ UNCHANGED murls
            ELSE mpc' = "construct" /\ murls' = <<FileLines(args)>> /\ UNCHANGED mexit
    /\ UNCHANGED <<args, sitemap, crawlers, requests>>

\* crawler = Crawler(...)
CreateCrawler ==
    /\ mpc = "construct"
    /\ crawlers' = crawlers + 1
    /\ mpc' = "run"
    /\ UNCHANGED <<args, sitemap, murls, requests, mexit>>

\* crawler.run(urls): "if urls is None: urls = self.fetch_sitemap()"
FetchSitemap ==
    /\ mpc = "run"
    /\ murls = << >>
    /\ requests' = requests + SitemapRequests(args)
    /\ murls' = <<fetch_sitemap(args, sitemap)>>
    /\ UNCHANGED <<args, sitemap, mpc, crawlers, mexit>>

\* run: "if not urls: return" and main ends, or the crawl of the URLs starts
StartCrawl ==
    /\ mpc = "run"
    /\ murls # << >>
    /\ IF murls[1] = << >>
       THEN mpc' = "exit" /\ mexit' = 0
       ELSE mpc' = "crawl" /\ UNCHANGED mexit
    /\ UNCHANGED <<args, sitemap, murls, crawlers, requests>>

---------------------------------------------------------------------------
(* Crawler.convert_to_markdown *)

\* An element is a record: id names its own text, kind is the tag or class
\* the selectors see, long tells whether its own text is a long one, kids
\* are its child elements. A document is a record: title (None or a text),
\* hasBody, and kids, the elements under the body or, without a body, at
\* the top of the fragment.

\* lengths of an element's own text, on either side of the threshold
ShortText == 60
LongText == 120

\* len(content_element.get_text(strip=True)) > 100
MinContentLength == 100

\* soup.find_all([...]) ... tag.decompose()
UnwantedTags == { "nav", "footer", "script", "style", "noscript", "iframe", "header" }

\* unwanted_selectors
UnwantedSelectors ==
    { ".sidebar", "#sidebar", ".toc", "#toc", ".breadcrumbs", ".breadcrumb",
      ".footer", ".header", ".nav", "[role=navigation]", ".navigation", ".menu" }

\* content_selectors, the fixed list of convert_to_markdown
ContentSelectors ==
    <<"article", "[role=main]", ".docs-content", ".content", ".markdown-body",
      "main", ".main-content">>

\* a selector a caller would like to supply
CustomSelector == ".my-content"

\* no tag taken for one to remove
IsNoTag(kind) == FALSE

\* the element is one that soup.find_all([...]) finds
IsUnwantedTag(kind) == kind \in UnwantedTags

RECURSIVE DecomposeTags(_)
\* for tag in soup.find_all([...]): tag.decompose()
DecomposeTags(nodes) ==
    IF nodes = << >> THEN << >>
    ELSE (IF IsUnwantedTag(Head(nodes).kind) THEN << >>
          ELSE <<[Head(nodes) EXCEPT !.kids = DecomposeTags(@)]>>)
         \o DecomposeTags(Tail(nodes))

RECURSIVE DecomposeSelectors(_)
\* for selector in unwanted_selectors: for element in soup.select(selector): element.decompose()
DecomposeSelectors(nodes) ==
    IF nodes = << >> THEN << >>
    ELSE (IF Head(nodes).kind \in UnwantedSelectors THEN << >>
          ELSE <<[Head(nodes) EXCEPT !.kids = DecomposeSelectors(@)]>>)
         \o DecomposeSelectors(Tail(nodes))

RECURSIVE PreOrder(_)
\* the elements in document order
PreOrder(nodes) ==
    IF nodes = << >> THEN << >>
    ELSE <<Head(nodes)>> \o PreOrder(Head(nodes).kids) \o PreOrder(Tail(nodes))

RECURSIVE TextLength(_)
\* len(get_text(strip=True)) of a list of elements
TextLength(nodes) ==
    IF nodes = << >> THEN 0
    ELSE (IF Head(nodes).long THEN LongText ELSE ShortText)
         + TextLength(Head(nodes).kids) + TextLength(Tail(nodes))

NoElement == << >>

\* the body element as a content root
BodyOf(nodes) == [id |-> "body", kind |-> "body", long |-> FALSE, kids |-> nodes]

\* len(content_element.get_text(strip=True))
ElementLength(element) ==
    IF element.kind = "body" THEN TextLength(element.kids) ELSE TextLength(<<element>>)

\* soup.select_one(selector): the first match in document order, or None
select_one(nodes, selector) ==
    LET hits == SelectSeq(PreOrder(nodes), LAMBDA node : node.kind = selector)
    IN  IF hits = << >> THEN NoElement ELSE <<hits[1]>>

RECURSIVE SelectorLoop(_, _, _)
\* for selector in content_selectors: content_element = select_one(selector);
\* if content_element and len(...) > 100: break
SelectorLoop(nodes, selectors, content_element) ==
    IF selectors = << >> THEN content_element
    ELSE LET found_ == select_one(nodes, Head(selectors))
         IN  IF found_ # NoElement /\ ElementLength(found_[1]) > MinContentLength
             THEN found_
             ELSE SelectorLoop(nodes, Tail(selectors), found_)

\* title_tag.text.strip() if title_tag else "No Title"
TitleOf(d) == IF d.title = PyNone THEN "No Title" ELSE d.title

\* the content root: what the selector loop left in content_element, else
\* soup.find('body'), else None
ContentRoot(d, nodes) ==
    LET content_element == SelectorLoop(nodes, ContentSelectors, NoElement)
    IN  IF content_element # NoElement THEN content_element
        ELSE IF d.hasBody THEN <<BodyOf(nodes)>>
        ELSE NoElement

RECURSIVE RawLines(_)
\* md(str(content_element)).split('\n'): every element's own text is a
\* block, a line with a blank line before and after it
RawLines(nodes) ==
    IF nodes = << >> THEN << >>
    ELSE << << >>, <<Head(nodes).id>>, << >> >> \o RawLines(Head(nodes).kids)
         \o RawLines(Tail(nodes))

\* not line.strip()
is_empty(line) == Strip(line) = << >>

\* the blank line after a blank line kept as well
SkipNever(empty, prev_empty) == FALSE

\* if is_empty and prev_empty: continue
SkipLine(empty, prev_empty) == empty /\ prev_empty

RECURSIVE CleanLoop(_, _, _)
\* the loop over lines that builds cleaned_lines
CleanLoop(lines, cleaned_lines, prev_empty) ==
    IF lines = << >> THEN cleaned_lines
    ELSE IF SkipLine(is_empty(Head(lines)), prev_empty)
    THEN CleanLoop(Tail(lines), cleaned_lines, prev_empty)
    ELSE CleanLoop(Tail(lines), Append(cleaned_lines, Head(lines)), is_empty(Head(lines)))

RECURSIVE JoinLines(_)
\* '\n'.join(lines)
JoinLines(lines) ==
    IF lines = << >> THEN << >>
    ELSE IF Len(lines) = 1 THEN lines[1]
    ELSE lines[1] \o <<"\n">> \o JoinLines(Tail(lines))

\* '\n'.join(cleaned_lines).strip()
PostProcess(lines) == Strip(JoinLines(CleanLoop(lines, << >>, FALSE)))

\* convert_to_markdown: the Markdown, the title, and for the record the
\* id of the content root converted
convert_to_markdown(d) ==
    LET nodes == DecomposeSelectors(DecomposeTags(d.kids))
        content_element == ContentRoot(d, nodes)
    IN  IF content_element = NoElement
        THEN [markdown |-> << >>, title |-> TitleOf(d), root |-> "none"]
        ELSE [markdown |-> PostProcess(RawLines(
                               IF content_element[1].kind = "body"
                               THEN content_element[1].kids ELSE content_element)),
              title |-> TitleOf(d),
              root |-> content_element[1].id]

\* the parameters of Crawler.__init__
InitParameters == { "base_url", "sitemap_url", "output_dir", "custom_folder" }

\* Crawler(**kwargs): a keyword that is no parameter raises TypeError
MakeCrawler(kwargs) ==
    /\ made = "no"
    /\ given' = kwargs
    /\ made' = IF kwargs \subseteq InitParameters THEN "yes" ELSE "TypeError"
    /\ UNCHANGED <<doc, converted, raw, cleaned>>

\* crawler.convert_to_markdown(html_content)
ConvertToMarkdown ==
    /\ made = "yes"
    /\ converted' = <<convert_to_markdown(doc)>>
    /\ UNCHANGED <<doc, given, made, raw, cleaned>>

\* the last lines of convert_to_markdown applied to the lines of a conversion
CleanUp ==
    /\ cleaned' = <<PostProcess(raw)>>
    /\ UNCHANGED <<doc, given, made, converted, raw>>

\* The elements nested in a top element: boilerplate or a plain block,
\* each with a long text of its own
NestedKinds == { "nav", ".sidebar", "div" }

Nested(id) ==
    { << >> }
    \cup { <<[id |-> id, kind |-> k, long |-> TRUE, kids |-> << >>]>> : k \in NestedKinds }

\* The elements under the body: navigation and the content candidates
TopKinds == { "nav", "article", "main", ".main-content", CustomSelector }

\* the candidates of the fixed list come with a short or a long text
Lengths(kind) == IF kind \in { "nav", CustomSelector } THEN { TRUE } ELSE BOOLEAN

TopIds == <<"1", "2", "3", "4">>
NestedIds == <<"5", "6", "7", "8">>

TopElements(k) ==
    UNION { { [id |-> TopIds[k], kind |-> kd, long |-> lg, kids |-> ns] :
                lg \in Lengths(kd), ns \in Nested(NestedIds[k]) } : kd \in TopKinds }

Documents ==
    { [title |-> t, hasBody |-> b, kids |-> ks] :
        t \in { PyNone, "T" }, b \in BOOLEAN,
        ks \in UNION { { f \in [1..n -> UNION { TopElements(k) : k \in 1..n }] :
                           \A k \in 1..n : f[k] \in TopElements(k) } : n \in 0..MaxTop } }

\* The lines a raw conversion is made of
Lines == { << >>, <<" ">>, <<"x">>, <<" ", "x">>, <<"x", " ">> }

---------------------------------------------------------------------------
(* Initial values of the parts a specification does not exercise *)

ProgressIdle ==
    /\ data = NoData
    /\ disk = << >>
    /\ loaded = << >>
    /\ resumed = FALSE
    /\ crawlUrls = << >>
    /\ marks = NoMarks
    /\ found = Intact
    /\ loadRaised = NoException

CacheIdle ==
    /\ pages = [u \in Urls |-> NoEntry]
    /\ cacheFile = NoCacheFile
    /\ constructed = "no"
    /\ stored = NothingStored
    /\ answer = << >>

CrawlIdle ==
    /\ urls = << >>
    /\ pc = "idle"
    /\ i = 0
    /\ attempt = 0
    /\ results = << >>
    /\ files = [f \in FileNames |-> NoFile]
    /\ visited = << >>
    /\ outcomes = << >>
    /\ navs = 0
    /\ tries = 0
    /\ interrupted = FALSE
    /\ exitCode = -1

MainIdle ==
    /\ args = [mode |-> "list", base_url |-> PyNone, sitemap_url |-> PyNone,
               file |-> "listed"]
    /\ sitemap = ConnectionError
    /\ mpc = "idle"
    /\ murls = << >>
    /\ crawlers = 0
    /\ requests = 0
    /\ mexit = -1

ConvertIdle ==
    /\ doc = [title |-> PyNone, hasBody |-> FALSE, kids |-> << >>]
    /\ given = { }
    /\ made = "no"
    /\ converted = << >>
    /\ raw = << >>
    /\ cleaned = << >>

ExportIdle ==
    /\ dir = [name \in ExportNames |-> NoFile]
    /\ order = << >>
    /\ merged = << >>
    /\ exports = << >>

---------------------------------------------------------------------------
(* convert_to_markdown exercised on documents *)

InitConvert ==
    /\ ProgressIdle
    /\ CacheIdle
    /\ CrawlIdle
    /\ ExportIdle
    /\ MainIdle
    /\ doc \in Documents
    /\ given = { }
    /\ made = "no"
    /\ converted = << >>
    /\ raw = << >>
    /\ cleaned = << >>

NextConvert ==
    \/ \E kwargs \in { { "base_url" }, { "base_url", "content_selectors" } } :
            MakeCrawler(kwargs) /\ UNCHANGED <<pvars, kvars, cvars, xvars, mvars>>
    \/ ConvertToMarkdown /\ UNCHANGED <<pvars, kvars, cvars, xvars, mvars>>

SpecConvert == InitConvert /\ [][NextConvert]_vars

---------------------------------------------------------------------------
(* the blank-line clean-up of convert_to_markdown exercised on lines *)

InitClean ==
    /\ ProgressIdle
    /\ CacheIdle
    /\ CrawlIdle
    /\ ExportIdle
    /\ MainIdle
    /\ doc = [title |-> PyNone, hasBody |-> FALSE, kids |-> << >>]
    /\ given = { }
    /\ made = "no"
    /\ converted = << >>
    /\ raw \in ListsUpTo(Lines, MaxLines)
    /\ cleaned = << >>

NextClean == CleanUp /\ UNCHANGED <<pvars, kvars, cvars, xvars, mvars>>

SpecClean == InitClean /\ [][NextClean]_vars

---------------------------------------------------------------------------
(* main from the command line to the start of the crawl *)

InitMain ==
    /\ ProgressIdle
    /\ ConvertIdle
    /\ CacheIdle
    /\ CrawlIdle
    /\ ExportIdle
    /\ args \in ArgSets
    /\ sitemap \in Sitemaps
    /\ mpc = "validate"
    /\ murls = << >>
    /\ crawlers = 0
    /\ requests = 0
    /\ mexit = -1

NextMain ==
    \/ Validate /\ UNCHANGED <<pvars, kvars, cvars, xvars, hvars>>
    \/ CreateCrawler /\ UNCHANGED <<pvars, kvars, cvars, xvars, hvars>>
    \/ FetchSitemap /\ UNCHANGED <<pvars, kvars, cvars, xvars, hvars>>
    \/ StartCrawl /\ UNCHANGED <<pvars, kvars, cvars, xvars, hvars>>

SpecMain == InitMain /\ [][NextMain]_vars

---------------------------------------------------------------------------
(* The exporter exercised on a directory *)

InitExport ==
    /\ ProgressIdle
    /\ CacheIdle
    /\ CrawlIdle
    /\ MainIdle
    /\ ConvertIdle
    /\ dir \in { [name \in ExportNames |->
                    CASE name = IndexFile -> ix
                      [] name = PageA -> a
                      [] name = PageB -> b
                      [] name = NotesTxt -> n
                      [] name = MergedFile -> NoFile] :
                  ix \in IndexContents, a \in PageContents, b \in PageContents,
                  n \in { NoFile, TextFile(<<"x">>) } }
    /\ order = << >>
    /\ merged = << >>
    /\ exports = << >>

NextExport ==
    \/ GetPageOrder /\ UNCHANGED <<pvars, kvars, cvars, mvars, hvars>>
    \/ Merge /\ UNCHANGED <<pvars, kvars, cvars, mvars, hvars>>
    \/ ExportMergedMd /\ UNCHANGED <<pvars, kvars, cvars, mvars, hvars>>

SpecExport == InitExport /\ [][NextExport]_vars

---------------------------------------------------------------------------
(* The cache store exercised through its constructor and public methods *)

InitCache ==
    /\ ProgressIdle
    /\ CrawlIdle
    /\ ExportIdle
    /\ MainIdle
    /\ ConvertIdle
    /\ pages = EmptyPages
    /\ cacheFile \in CacheFiles
    /\ constructed = "no"
    /\ stored = NothingStored
    /\ answer = << >>

NextCache ==
    \/ Construct /\ UNCHANGED <<pvars, cvars, xvars, mvars, hvars>>
    \/ \E u \in CacheUrls, h \in Hashes, e \in Etags :
            UpdatePage(u, h, e) /\ UNCHANGED <<pvars, cvars, xvars, mvars, hvars>>
    \/ \E u \in CacheUrls : RemovePage(u) /\ UNCHANGED <<pvars, cvars, xvars, mvars, hvars>>
    \/ ClearCache /\ UNCHANGED <<pvars, cvars, xvars, mvars, hvars>>
    \/ SaveCache /\ UNCHANGED <<pvars, cvars, xvars, mvars, hvars>>
    \/ \E u \in CacheUrls, h \in Hashes :
            IsChanged(u, h) /\ UNCHANGED <<pvars, cvars, xvars, mvars, hvars>>

SpecCache == InitCache /\ [][NextCache]_vars

---------------------------------------------------------------------------
(* The progress store exercised through its public methods *)

InitProgress ==
    ProgressIdle /\ CacheIdle /\ CrawlIdle /\ ExportIdle /\ MainIdle /\ ConvertIdle

NextProgress ==
    \/ \E us \in ListsUpTo(ProgressUrls, MaxUrls) : Start(us) /\ UNCHANGED <<kvars, cvars, xvars, mvars, hvars>>
    \/ \E u \in ProgressUrls : MarkCompleted(u) /\ UNCHANGED <<kvars, cvars, xvars, mvars, hvars>>
    \/ \E u \in ProgressUrls, e \in Errors : MarkFailed(u, e) /\ UNCHANGED <<kvars, cvars, xvars, mvars, hvars>>
    \/ Save /\ UNCHANGED <<kvars, cvars, xvars, mvars, hvars>>
    \/ Resume /\ UNCHANGED <<kvars, cvars, xvars, mvars, hvars>>
    \/ \E dmg \in Damages : ResumeDamaged(dmg) /\ UNCHANGED <<kvars, cvars, xvars, mvars, hvars>>
    \/ Clear /\ UNCHANGED <<kvars, cvars, xvars, mvars, hvars>>

SpecProgress == InitProgress /\ [][NextProgress]_vars

---------------------------------------------------------------------------
(* Crawler.run under cli.main *)

\* process_url_with_playwright returns: run's for loop takes the next URL
FinishUrl(outcome) ==
    /\ outcomes' = Append(outcomes, outcome)
    /\ pc' = "loop"
    /\ i' = i + 1
    /\ attempt' = 0
    /\ UNCHANGED exitCode

\* The exception leaves run: main exits 0 on KeyboardInterrupt, 1 on Exception
Propagate(kind) ==
    /\ pc' = "exit"
    /\ exitCode' = IF kind = "KeyboardInterrupt" THEN 0 ELSE 1
    /\ UNCHANGED <<i, attempt, outcomes>>

\* An exception inside the try of the retry loop
RaiseInAttempt(kind) ==
    IF ExceptException(kind)
    THEN IF IsLastAttempt(attempt)
         THEN FinishUrl("fetch_failed")
         ELSE /\ attempt' = attempt + 1
              /\ pc' = "goto"
              /\ UNCHANGED <<i, outcomes, exitCode>>
    ELSE Propagate(kind)

\* An exception inside the try around conversion and file writing
RaiseInConvert(kind, outcome) ==
    IF ExceptException(kind) THEN FinishUrl(outcome) ELSE Propagate(kind)

Interrupts(res) == interrupted' = (interrupted \/ res = "KeyboardInterrupt")

\* run: "if not urls: return"
RunStart ==
    /\ pc = "main"
    /\ IF urls = << >>
       THEN pc' = "exit" /\ exitCode' = 0
       ELSE pc' = "launch" /\ UNCHANGED exitCode
    /\ UNCHANGED <<urls, i, attempt, results, files, visited, outcomes, navs, tries,
                   interrupted>>

\* sync_playwright(), launch, new_context, new_page
Launch ==
    /\ pc = "launch"
    /\ \E res \in CallResults :
        /\ Interrupts(res)
        /\ IF res = Returns
           THEN pc' = "loop" /\ i' = 1 /\ UNCHANGED <<attempt, outcomes, exitCode>>
           ELSE Propagate(res)
    /\ UNCHANGED <<urls, results, files, visited, navs, tries>>

\* for url in urls: the next URL is handed to process_url_with_playwright,
\* or the loop ends
Loop ==
    /\ pc = "loop"
    /\ \E res \in { Returns, "KeyboardInterrupt" } :
        /\ Interrupts(res)
        /\ IF res # Returns
           THEN Propagate(res) /\ UNCHANGED <<visited, tries>>
           ELSE IF i <= Len(urls)
                THEN /\ visited' = Append(visited, urls[i])
                     /\ attempt' = 0
                     /\ tries' = 0
                     /\ pc' = "goto"
                     /\ UNCHANGED <<i, outcomes, exitCode>>
                ELSE /\ pc' = "index"
                     /\ UNCHANGED <<i, attempt, outcomes, exitCode, visited, tries>>
    /\ UNCHANGED <<urls, results, files, navs>>

\* page.goto(url)
Goto ==
    /\ pc = "goto"
    /\ navs' = navs + 1
    /\ tries' = tries + 1
    /\ \E res \in CallResults :
        /\ Interrupts(res)
        /\ IF res = Returns
           THEN pc' = "wait_selector" /\ UNCHANGED <<i, attempt, outcomes, exitCode>>
           ELSE RaiseInAttempt(res)
    /\ UNCHANGED <<urls, results, files, visited>>

\* page.wait_for_selector inside try / except: pass
WaitSelector ==
    /\ pc = "wait_selector"
    /\ \E res \in CallResults :
        /\ Interrupts(res)
        /\ IF res = Returns \/ ExceptBare(res)
           THEN pc' = "networkidle" /\ UNCHANGED <<i, attempt, outcomes, exitCode>>
           ELSE RaiseInAttempt(res)
    /\ UNCHANGED <<urls, results, files, visited, navs, tries>>

\* page.wait_for_load_state('networkidle')
NetworkIdle ==
    /\ pc = "networkidle"
    /\ \E res \in CallResults :
        /\ Interrupts(res)
        /\ IF res = Returns
           THEN pc' = "content" /\ UNCHANGED <<i, attempt, outcomes, exitCode>>
           ELSE RaiseInAttempt(res)
    /\ UNCHANGED <<urls, results, files, visited, navs, tries>>

\* content = page.content(); break; then "if content:"
Content ==
    /\ pc = "content"
    /\ \E res \in CallResults, empty \in BOOLEAN :
        /\ Interrupts(res)
        /\ IF res = Returns
           THEN IF empty
                THEN FinishUrl("empty")
                ELSE pc' = "convert" /\ UNCHANGED <<i, attempt, outcomes, exitCode>>
           ELSE ~empty /\ RaiseInAttempt(res)
    /\ UNCHANGED <<urls, results, files, visited, navs, tries>>

\* self.convert_to_markdown(content)
Convert ==
    /\ pc = "convert"
    /\ \E res \in CallResults :
        /\ Interrupts(res)
        /\ IF res = Returns
           THEN pc' = "open" /\ UNCHANGED <<i, attempt, outcomes, exitCode>>
           ELSE RaiseInConvert(res, "convert_failed")
    /\ UNCHANGED <<urls, results, files, visited, navs, tries>>

\* open(filepath, 'w'): creates the file or empties the one that is there
Open ==
    /\ pc = "open"
    /\ \E res \in CallResults :
        /\ Interrupts(res)
        /\ IF res = Returns
           THEN /\ files' = [files EXCEPT ![Filename(urls[i])] = Truncated]
                /\ pc' = "write"
                /\ UNCHANGED <<i, attempt, outcomes, exitCode>>
           ELSE RaiseInConvert(res, "open_failed") /\ UNCHANGED files
    /\ UNCHANGED <<urls, results, visited, navs, tries>>

\* f.write(markdown_content), the file closed by the with statement, and
\* the result returned and appended to self.results
Write ==
    /\ pc = "write"
    /\ \E res \in CallResults :
        /\ Interrupts(res)
        /\ IF res = Returns
           THEN /\ files' = [files EXCEPT ![Filename(urls[i])] = Markdown(urls[i])]
                /\ results' = Append(results, Result(urls[i]))
                /\ FinishUrl("ok")
           ELSE RaiseInConvert(res, "write_failed") /\ UNCHANGED <<files, results>>
    /\ UNCHANGED <<urls, visited, navs, tries>>

\* browser.close(); self.generate_index(); main ends
GenerateIndex ==
    /\ pc = "index"
    /\ \E res \in { Returns, "KeyboardInterrupt" } :
        /\ Interrupts(res)
        /\ IF res = Returns
           THEN /\ files' = [files EXCEPT ![IndexFile] = IndexTable(SortByTitle(results))]
                /\ pc' = "exit"
                /\ exitCode' = 0
                /\ UNCHANGED <<i, attempt, outcomes>>
           ELSE Propagate(res) /\ UNCHANGED files
    /\ UNCHANGED <<urls, results, visited, navs, tries>>

\* main hands run a URL list read from a file; no CrawlCache is constructed,
\* and a progress store, when the caller started one for the list, is on disk
InitCrawl ==
    /\ urls \in ListsUpTo(Urls, MaxUrls)
    /\ pc = "main"
    /\ i = 0
    /\ attempt = 0
    /\ results = << >>
    /\ files = [f \in FileNames |-> NoFile]
    /\ visited = << >>
    /\ outcomes = << >>
    /\ navs = 0
    /\ tries = 0
    /\ interrupted = FALSE
    /\ exitCode = -1
    /\ CacheIdle
    /\ data \in { NoData, <<StartData(urls)>> }
    /\ disk = data
    /\ loaded = << >>
    /\ resumed = FALSE
    /\ crawlUrls = IF data = NoData THEN << >> ELSE urls
    /\ marks = NoMarks
    /\ found = Intact
    /\ loadRaised = NoException
    /\ ExportIdle
    /\ MainIdle
    /\ ConvertIdle

NextCrawl ==
    \/ RunStart /\ UNCHANGED <<pvars, kvars, xvars, mvars, hvars>>
    \/ Launch /\ UNCHANGED <<pvars, kvars, xvars, mvars, hvars>>
    \/ Loop /\ UNCHANGED <<pvars, kvars, xvars, mvars, hvars>>
    \/ Goto /\ UNCHANGED <<pvars, kvars, xvars, mvars, hvars>>
    \/ WaitSelector /\ UNCHANGED <<pvars, kvars, xvars, mvars, hvars>>
    \/ NetworkIdle /\ UNCHANGED <<pvars, kvars, xvars, mvars, hvars>>
    \/ Content /\ UNCHANGED <<pvars, kvars, xvars, mvars, hvars>>
    \/ Convert /\ UNCHANGED <<pvars, kvars, xvars, mvars, hvars>>
    \/ Open /\ UNCHANGED <<pvars, kvars, xvars, mvars, hvars>>
    \/ Write /\ UNCHANGED <<pvars, kvars, xvars, mvars, hvars>>
    \/ GenerateIndex /\ UNCHANGED <<pvars, kvars, xvars, mvars, hvars>>

SpecCrawl == InitCrawl /\ [][NextCrawl]_vars

---------------------------------------------------------------------------
(* Progress store: claims *)

FailedUrlSet(d) == { d.failed[k].url : k \in 1..Len(d.failed) }

\* The lists of d (pending, completed, failed by url) that hold url
StatesOf(d, url) ==
    { s \in {"pending", "completed", "failed"} :
        \/ s = "pending" /\ Contains(d.pending, url)
        \/ s = "completed" /\ Contains(d.completed, url)
        \/ s = "failed" /\ url \in FailedUrlSet(d) }

NoUrlMarkedTwice == \A u \in ProgressUrls : marks[u] <= 1

MarkedUrlsAreOfTheCrawl ==
    \A u \in ProgressUrls : marks[u] > 0 => u \in Range(crawlUrls)

\* C1: after start(urls), whatever the list and the mark_completed /
\* mark_failed calls, every URL of the crawl is in exactly one of pending,
\* completed and failed (by url).
C1_ExactlyOneState ==
    data # NoData =>
        \A u \in Range(crawlUrls) : Cardinality(StatesOf(data[1], u)) = 1

\* C2: after start(urls), whatever the list (duplicates included) and the
\* marks, no URL is pending and completed at once, and none is pending while
\* being the url of a failed record.
C2_PendingDisjoint ==
    data # NoData =>
        \A u \in ProgressUrls :
            /\ ~("pending" \in StatesOf(data[1], u) /\ "completed" \in StatesOf(data[1], u))
            /\ ~("pending" \in StatesOf(data[1], u) /\ "failed" \in StatesOf(data[1], u))

SumOfLengths(d) == Len(d.pending) + Len(d.completed) + Len(d.failed)

\* C3 as stated: when no URL was marked twice since start(urls),
\* len(pending) + len(completed) + len(failed) = total.
C3_SumEqualsTotal_AnyUrl ==
    (data # NoData /\ NoUrlMarkedTwice) => SumOfLengths(data[1]) = data[1].total

\* C3 as amended: when no URL was marked twice since start(urls) and every
\* marked URL is one of urls, len(pending) + len(completed) + len(failed) = total.
C3_SumEqualsTotal ==
    (data # NoData /\ NoUrlMarkedTwice /\ MarkedUrlsAreOfTheCrawl)
        => SumOfLengths(data[1]) = data[1].total

\* C3's case: one URL of the crawl completed, another failed, none marked twice
C3_Witness ==
    /\ data # NoData
    /\ NoUrlMarkedTwice
    /\ MarkedUrlsAreOfTheCrawl
    /\ Len(data[1].completed) = 1
    /\ Len(data[1].failed) = 1
    /\ data[1].total = 2

\* C7: a new instance that loads after an interruption gets a pending list
\* holding no URL the interrupted instance had marked completed.
C7_ResumeSkipsCompleted ==
    (resumed /\ data # NoData /\ loaded # << >>) =>
        \A u \in Range(data[1].completed) : ~Contains(loaded[1].pending, u)

\* C13: load() on a corrupted progress document returns None and lets no
\* error through to its caller, whatever the document contains.
C13_LoadOnCorruptedReturnsNone ==
    (resumed /\ found # Intact) =>
        (loaded = << >> /\ loadRaised = NoException)

\* the number of occurrences of x in lst
Occurrences(lst, x) == Cardinality({ k \in 1..Len(lst) : lst[k] = x })

\* C14: mark_completed(url) for a URL that is already in completed changes
\* nothing (pending, completed, failed and total stay as they were) and
\* completed holds the URL once.
C14_MarkCompletedIdempotent ==
    [][\A u \in ProgressUrls :
        (data # NoData /\ Contains(data[1].completed, u) /\ MarkCompleted(u))
            => (data' = data /\ Occurrences(data'[1].completed, u) = 1)]_vars

\* C15: after start(urls), is_complete() is true exactly when every URL of
\* urls has been marked completed or failed.
C15_CompleteIffAllMarked ==
    data # NoData =>
        (is_complete(data) <=> \A u \in Range(crawlUrls) : marks[u] > 0)

\* C29: after any sequence of mark_failed calls following start(urls),
\* failed holds at most one record per URL.
C29_OneFailedRecordPerUrl ==
    data # NoData =>
        \A u \in ProgressUrls :
            Cardinality({ k \in 1..Len(data[1].failed) : data[1].failed[k].url = u }) <= 1

---------------------------------------------------------------------------
(* Cache store: claims *)

\* what is_changed has to return for a URL and a hash, told from the calls made
ExpectedChanged(url, h) == stored[url] = NotStored \/ stored[url] # h

\* C11: after any sequence of update_page, remove_page and clear calls,
\* is_changed(url, h) is true when url has no cache entry and otherwise is
\* false exactly when the stored content hash of url equals h.
C11_IsChangedTellsStoredHash ==
    /\ answer # << >> =>
           answer[1].changed = ExpectedChanged(answer[1].url, answer[1].hash)
    /\ constructed = "yes" =>
           \A u \in CacheUrls, h \in Hashes :
               is_changed(pages, u, h) = ExpectedChanged(u, h)

\* C11's case: is_changed answered "unchanged" for a URL that was updated
\* while another URL, updated before, has had its entry removed
C11_Witness ==
    /\ answer # << >>
    /\ answer[1].changed = FALSE
    /\ \E u \in CacheUrls :
           /\ u # answer[1].url
           /\ stored[u] = NotStored
           /\ cacheFile = CacheDoc(CACHE_VERSION,
                  [EmptyPages EXCEPT ![u] = <<Entry("h1", PyNone)>>])

\* the cache files of a version mismatch or a parse failure
StartsEmpty(file) ==
    \/ IsDoc(file) /\ file[2] # CACHE_VERSION
    \/ IsDamaged(file) /\ LoadBodyRaises(file[1]) = "JSONDecodeError"

\* C12: whatever the cache file holds (missing, unreadable, not parseable,
\* another version, an unexpected shape), constructing CrawlCache never
\* raises, and on version mismatch or parse failure the store starts empty.
C12_ConstructNeverRaises ==
    [][(constructed = "no" /\ constructed' # "no") =>
          /\ constructed' = "yes"
          /\ StartsEmpty(cacheFile) => pages' = EmptyPages]_vars

---------------------------------------------------------------------------
(* Crawl run: claims *)

FailureOutcomes == { "fetch_failed", "convert_failed", "open_failed", "write_failed" }

\* The run is not stuck: some step of it can be taken
RunCanStep == ENABLED NextCrawl

C5_FailedPageLeavesNothing ==
    /\ Len(results) = Cardinality({ k \in 1..Len(outcomes) : outcomes[k] = "ok" })
    /\ \A k \in 1..Len(outcomes) :
          outcomes[k] \in FailureOutcomes => files[Filename(visited[k])] # Truncated

\* C6: a URL whose fetch failed on the last attempt has left pending and is
\* the url of a failed record, with an error, in the progress store.
C6_TerminalFailureRecorded ==
    \A k \in 1..Len(outcomes) :
        outcomes[k] = "fetch_failed" =>
            /\ data # NoData
            /\ ~Contains(data[1].pending, visited[k])
            /\ \E n \in 1..Len(data[1].failed) :
                  /\ data[1].failed[n].url = visited[k]
                  /\ data[1].failed[n].error # PyNone

\* C8: after each successful fetch and conversion, the cache holds an entry
\* for the URL whose content hash is the digest of the Markdown written.
C8_CacheUpdatedAfterSuccess ==
    \A k \in 1..Len(results) :
        /\ pages[results[k].url] # NoEntry
        /\ pages[results[k].url][1].content_hash
              = compute_hash(Markdown(results[k].url))

\* C9: when an interrupt ends a run in which pages were converted, the index
\* has been generated from those results when the process exits.
C9_IndexAfterInterrupt ==
    (pc = "exit" /\ interrupted /\ results # << >>)
        => files[IndexFile] = IndexTable(SortByTitle(results))

\* C10: once an interrupt was delivered, no further URL is navigated to
\* (no first page.goto of a URL happens afterwards).
C10_NoNavigationAfterInterrupt ==
    [][(interrupted /\ navs' # navs) => attempt # 0]_vars

\* no element occurs twice
Distinct(lst) == \A j, k \in 1..Len(lst) : j # k => lst[j] # lst[k]

\* C16: one file per page. When run over a list of distinct URLs finishes,
\* each entry of the results names a file that differs from every other
\* entry's file and from the index file, and that file holds the page's
\* Markdown.
C16_OneFilePerPage ==
    (pc = "exit" /\ exitCode = 0 /\ Distinct(urls)) =>
        \A k \in 1..Len(results) :
            /\ results[k].file # IndexFile
            /\ \A j \in 1..Len(results) : j # k => results[j].file # results[k].file
            /\ files[results[k].file] = Markdown(results[k].url)

\* C20: the index generate_index emits round-trips through get_page_order.
\* For results whose page files exist on disk, parsing the emitted index
\* yields the files of the results in the index's row order (rows sorted by
\* title).
C20_IndexRoundTrips ==
    (/\ pc = "exit"
     /\ exitCode = 0
     /\ \A k \in 1..Len(results) : Exists(files, results[k].file)) =>
        get_page_order(files)
            = [k \in 1..Len(results) |-> SortByTitle(results)[k].file]

\* the call of process_url_with_playwright for the URL last visited has returned
LastCallReturned == pc \in { "loop", "index" } /\ outcomes # << >>

C26_SecondaryWaitsNonFatal ==
    [][/\ (pc = "wait_selector" /\ ~interrupted')
            => (pc' = "networkidle" /\ attempt' = attempt)
       /\ (pc = "networkidle" /\ ~interrupted')
            => (pc' = "content" /\ attempt' = attempt)]_vars

---------------------------------------------------------------------------
(* Exporter: claims *)

\* a text without the white space at its two ends
Trimmed(text) ==
    LET inked == { k \in 1..Len(text) : text[k] \notin WhiteSpace }
    IN  IF inked = {} THEN << >>
        ELSE SubSeq(text, CHOOSE k \in inked : \A n \in inked : k <= n,
                          CHOOSE k \in inked : \A n \in inked : k >= n)

\* the Markdown files of the directory other than the index file
MdPages(d) == { name \in DOMAIN d : Exists(d, name) /\ EndsWithMd(name) /\ name # IndexFile }

Ascending(names) ==
    \A j, k \in 1..Len(names) : j < k => StrLess(names[j], names[k])

\* names lists the set S, each name once, in ascending order
IsAlphabeticalListOf(names, S) ==
    /\ Range(names) = S
    /\ Len(names) = Cardinality(S)
    /\ Ascending(names)

\* the files an index file refers to
Referenced(d) ==
    IF Exists(d, IndexFile) /\ d[IndexFile][1] = "index"
    THEN [k \in 1..Len(d[IndexFile][2]) |-> d[IndexFile][2][k].file]
    ELSE << >>

KeptTest(d, name) == name # IndexFile /\ Exists(d, name)

\* the referenced files to keep: those on disk other than the index file
IndexListed(d) == SelectSeq(Referenced(d), LAMBDA name : KeptTest(d, name))

\* the resolved page order: index order when an index lists files,
\* ascending order of the names otherwise
ResolvedOrder(d) ==
    IF IndexListed(d) # << >> THEN IndexListed(d)
    ELSE CHOOSE names \in [1..Cardinality(MdPages(d)) -> MdPages(d)] : Ascending(names)

RECURSIVE JoinedBySeparator(_)
\* the texts with one separator between each two neighbours
JoinedBySeparator(texts) ==
    IF texts = << >> THEN << >>
    ELSE IF Len(texts) = 1 THEN texts[1]
    ELSE texts[1] \o Separator \o JoinedBySeparator(Tail(texts))

TrimmedTexts(d, names) == [k \in 1..Len(names) |-> Trimmed(ReadText(d[names[k]]))]

ReadableTest(d, name) == CanRead(d[name])

\* The statement as made: merge() returns the trimmed contents of the files
\* of the resolved page order, all of them, joined by one separator between
\* each two.
C17_MergeJoinsAllFiles ==
    merge(dir).raised = NoException =>
        /\ \A k \in 1..Len(ResolvedOrder(dir)) : CanRead(dir[ResolvedOrder(dir)[k]])
        /\ merge(dir).text
              = JoinedBySeparator(TrimmedTexts(dir, ResolvedOrder(dir)))

\* C17: when merge() returns, it returns the trimmed contents of those files
\* of the resolved page order that could be read (index order when an index
\* lists files, ascending order of the names otherwise), with exactly one
\* separator between each two neighbours and none before the first or after
\* the last.
C17_MergeJoinsReadableFiles ==
    merge(dir).raised = NoException =>
        merge(dir).text
            = JoinedBySeparator(TrimmedTexts(dir,
                  SelectSeq(ResolvedOrder(dir), LAMBDA name : ReadableTest(dir, name))))

\* C17's case: merge() was called on a directory whose index lists b.md
\* before a.md, and returned the trimmed text of b.md, one separator, the
\* text of a.md
C17_Witness ==
    /\ merged = <<merge(dir)>>
    /\ merged[1].raised = NoException
    /\ get_page_order(dir) = <<PageB, PageA>>
    /\ dir[PageB] = TextFile(<<" ", "y", "\n">>)
    /\ dir[PageA] = TextFile(<<"x">>)
    /\ merged[1].text = <<"y">> \o Separator \o <<"x">>

\* C18: get_page_order() returns the alphabetical order of all .md files
\* except the index file whenever the index is missing, cannot be read or
\* yields no references to keep; otherwise it returns, in index order, the
\* referenced files that exist on disk and are not the index file.
C18_OrderFallsBackOrFollowsIndex ==
    IF ~Exists(dir, IndexFile) \/ ~CanRead(dir[IndexFile]) \/ IndexListed(dir) = << >>
    THEN IsAlphabeticalListOf(get_page_order(dir), MdPages(dir))
    ELSE get_page_order(dir) = IndexListed(dir)

\* C19: merge() raises whenever no file contributes to the merge, and
\* returns only when the content of at least one file was included.
C19_MergeRaisesWhenNothingMerged ==
    merge(dir).raised = NoException
        <=> \E k \in 1..Len(get_page_order(dir)) : CanRead(dir[get_page_order(dir)[k]])

\* C30: export_merged_md() is repeatable: called twice in a row on the same
\* directory with the default output path, with or without an index file,
\* it writes the same merged content both times.
C30_ExportRepeatable ==
    \A k \in 2..Len(exports) : exports[k] = exports[k - 1]

---------------------------------------------------------------------------
(* main and fetch_sitemap: claims *)

\* the end of the path of a URL: the last piece before its query or fragment
PathEnd(url) ==
    LET marks_ == { k \in 1..Len(url) : url[k] \in { "?", "#" } }
    IN  IF marks_ = {} THEN Len(url)
        ELSE (CHOOSE k \in marks_ : \A n \in marks_ : k <= n) - 1

\* the path of the URL holds /docs/
PathHasFilter(url) ==
    \E k \in 2..(PathEnd(url) - 2) :
        url[k] = "/" /\ url[k + 1] = "docs" /\ url[k + 2] = "/"

\* run has called fetch_sitemap
Fetched == args.mode = "sitemap" /\ murls # << >>

\* C21: every URL fetch_sitemap returns is a sitemap location whose path
\* holds the path filter '/docs/', every sitemap location whose path holds
\* the filter is returned, and a network or parse error gives an empty list.
C21_SitemapFiltered ==
    Fetched =>
        IF sitemap[1] = "urlset"
        THEN /\ \A u \in Range(murls[1]) :
                    u \in Range(sitemap[2]) /\ PathHasFilter(u)
             /\ \A u \in Range(sitemap[2]) :
                    PathHasFilter(u) => u \in Range(murls[1])
        ELSE murls[1] = << >>

\* C21's case: the sitemap lists a page whose query, not path, holds /docs/
\* and a page under .../docs/; fetch_sitemap returned the second only
C21_Witness ==
    /\ Fetched
    /\ sitemap = SitemapDoc(<< <<Host, "/", "about", "?", "from", "=", "/", "docs", "/">>,
                               <<Host, "/", "v2", "/", "docs", "/", "b">> >>)
    /\ murls[1] = << <<Host, "/", "v2", "/", "docs", "/", "b">> >>

\* the arguments are invalid for the chosen mode
InvalidArgs(a) ==
    \/ a.mode = "sitemap" /\ a.base_url \in { PyNone, "" } /\ a.sitemap_url \in { PyNone, "" }
    \/ a.mode = "list" /\ a.file \in { PyNone, "" }
    \/ a.mode = "list" /\ a.file = "missing"

\* C24: when the arguments are invalid for the chosen mode (sitemap mode
\* without --base-url and --sitemap-url, list mode without --file, or a
\* --file that does not exist), main exits with a non-zero code before any
\* Crawler is created and before any network request is made.
C24_InvalidArgsExitEarly ==
    InvalidArgs(args) =>
        /\ crawlers = 0
        /\ requests = 0
        /\ mpc \in { "validate", "exit" }
        /\ mpc = "exit" => mexit > 0

\* C24's case: sitemap mode with an empty --base-url and no --sitemap-url
\* has exited with the usage status
C24_Witness ==
    /\ args.mode = "sitemap"
    /\ args.base_url = ""
    /\ args.sitemap_url = PyNone
    /\ mpc = "exit"
    /\ mexit = UsageError

---------------------------------------------------------------------------
(* Claims about convert_to_markdown *)

\* a line of nothing but whitespace
Blank(line) == \A k \in 1..Len(line) : line[k] \in WhiteSpace

RECURSIVE SplitLines(_)
\* the lines of a text, cut at every line feed
SplitLines(chars) ==
    IF \A k \in 1..Len(chars) : chars[k] # "\n" THEN <<chars>>
    ELSE LET n == CHOOSE k \in 1..Len(chars) :
                      chars[k] = "\n" /\ \A j \in 1..(k - 1) : chars[j] # "\n"
         IN  <<SubSeq(chars, 1, n - 1)>> \o SplitLines(SubSeq(chars, n + 1, Len(chars)))

\* the lines that are not blank, in order
NonBlank(lines) == SelectSeq(lines, LAMBDA line : ~Blank(line))

\* the final text keeps the non-blank lines of the conversion in order: the
\* inner ones as they are, the first and last up to the whitespace around
KeepsNonBlank(lines, text) ==
    LET before == NonBlank(lines)
        after == NonBlank(SplitLines(text))
    IN  /\ Len(after) = Len(before)
        /\ \A k \in 1..Len(before) :
               /\ Trimmed(after[k]) = Trimmed(before[k])
               /\ (1 < k /\ k < Len(before)) => after[k] = before[k]

\* C28: for every sequence of lines the raw Markdown conversion produces,
\* the final output has no two consecutive blank lines, keeps every
\* non-blank line in its order, and has no leading or trailing whitespace.
C28_BlankLinesCollapsed ==
    cleaned # << >> =>
        LET text == cleaned[1]
            lines == SplitLines(text)
        IN  /\ \A k \in 2..Len(lines) : ~(Blank(lines[k - 1]) /\ Blank(lines[k]))
            /\ KeepsNonBlank(raw, text)
            /\ text # << >> => (text[1] \notin WhiteSpace /\ text[Len(text)] \notin WhiteSpace)

\* C28's case: two blank lines between two lines of text, and a trailing
\* blank line, came out as one empty-looking line between the two
C28_Witness ==
    /\ raw = << <<" ", "x">>, << >>, <<" ">>, <<"x", " ">> >>
    /\ cleaned = << <<"x", "\n", "\n", "x">> >>

\* the elements left after the navigation, footer and denylist elements
\* are taken out
Pruned(d) == DecomposeSelectors(DecomposeTags(d.kids))

\* the place in the list of the first selector whose first match holds
\* more than 100 characters of text, 0 when there is none
FirstQualifying(nodes, selectors) ==
    LET qualifying == { k \in 1..Len(selectors) :
                          /\ select_one(nodes, selectors[k]) # NoElement
                          /\ ElementLength(select_one(nodes, selectors[k])[1]) > MinContentLength }
    IN  IF qualifying = { } THEN 0
        ELSE CHOOSE k \in qualifying : \A j \in qualifying : k <= j

\* the content root the selector list names: the match of the first
\* qualifying selector, else the body, else none
RootNamedBy(d, selectors) ==
    LET k == FirstQualifying(Pruned(d), selectors)
    IN  IF k # 0 THEN select_one(Pruned(d), selectors[k])[1].id
        ELSE IF d.hasBody THEN "body"
        ELSE "none"

\* C27: in convert_to_markdown the content root is the element matched by
\* the first selector of the content-selector list whose match holds more
\* than 100 characters of plain text; when no selector qualifies the root
\* is the body; when there is no body the result is the empty string with
\* the extracted title.
C27_RootIsFirstQualifying ==
    converted # << >> =>
        /\ converted[1].root = RootNamedBy(doc, ContentSelectors)
        /\ converted[1].title = TitleOf(doc)
        /\ RootNamedBy(doc, ContentSelectors) = "none" => converted[1].markdown = << >>

RECURSIVE IdsOf(_)
\* the texts of some elements and of all the elements inside them
IdsOf(nodes) ==
    IF nodes = << >> THEN { }
    ELSE { Head(nodes).id } \cup IdsOf(Head(nodes).kids) \cup IdsOf(Tail(nodes))

RECURSIVE InsideUnwanted(_)
\* the texts inside a nav or footer element or an element of the denylist
InsideUnwanted(nodes) ==
    IF nodes = << >> THEN { }
    ELSE (IF Head(nodes).kind \in { "nav", "footer" } \cup UnwantedSelectors
          THEN IdsOf(<<Head(nodes)>>)
          ELSE InsideUnwanted(Head(nodes).kids))
         \cup InsideUnwanted(Tail(nodes))

\* C23: no text inside a nav or footer element, or inside an element
\* matching the removal denylist, appears in the Markdown that
\* convert_to_markdown returns, also when that element is nested inside
\* the selected content root.
C23_BoilerplateRemoved ==
    converted # << >> =>
        \A id \in InsideUnwanted(doc.kids) :
            \A k \in 1..Len(converted[1].markdown) : converted[1].markdown[k] # id

\* C23's case: a long article that holds a nav is the content root, and the
\* Markdown is the article's own text alone
C23_Witness ==
    /\ converted # << >>
    /\ Len(doc.kids) = 1
    /\ doc.kids[1].kind = "article"
    /\ doc.kids[1].long
    /\ doc.kids[1].kids # << >>
    /\ doc.kids[1].kids[1].kind = "nav"
    /\ converted[1].root = doc.kids[1].id
    /\ converted[1].markdown = <<doc.kids[1].id>>

\* C22: a Crawler constructed with content_selectors chooses the content
\* root with the supplied list in place of the default list, so the
\* Markdown holds the text of the element the supplied selector matches
\* and not the text of its siblings.
C22_SuppliedSelectorsUsed ==
    "content_selectors" \in given =>
        /\ made = "yes"
        /\ converted # << >> =>
               converted[1].root = RootNamedBy(doc, <<CustomSelector>>)

====
